---- MODULE Spec2Model ----
(***************************************************************************)
(* State-machine model of the mSCP notebook (src/mscp-notebook.py): the    *)
(* branch catalog, the status cell, the sync cell (clone / switch / pull), *)
(* the baseline catalog, the generate cell and the output cells.           *)
(*                                                                         *)
(* Text is modelled character by character: a string is a tuple of         *)
(* one-character strings, so that startswith, `in`, replace, upper and     *)
(* title are computed as Python computes them.                             *)
(***************************************************************************)
EXTENDS Integers, Sequences, FiniteSets, TLC

(***************************************************************************)
(* Python str operations used by the notebook.                             *)
(***************************************************************************)

\* Code-point order of the characters that occur in branch and file names.
AsciiOrder ==
    << " ", "(", ")", "-", ".", "/",
       "0", "1", "2", "3", "4", "5", "6", "7", "8", "9",
       "A", "B", "C", "D", "E", "F", "G", "H", "I", "J", "K", "L", "M",
       "N", "O", "P", "Q", "R", "S", "T", "U", "V", "W", "X", "Y", "Z",
       "_",
       "a", "b", "c", "d", "e", "f", "g", "h", "i", "j", "k", "l", "m",
       "n", "o", "p", "q", "r", "s", "t", "u", "v", "w", "x", "y", "z",
       "U+26A0", "U+FE0F" >>

LowerChars ==
    << "a", "b", "c", "d", "e", "f", "g", "h", "i", "j", "k", "l", "m",
       "n", "o", "p", "q", "r", "s", "t", "u", "v", "w", "x", "y", "z" >>

UpperChars ==
    << "A", "B", "C", "D", "E", "F", "G", "H", "I", "J", "K", "L", "M",
       "N", "O", "P", "Q", "R", "S", "T", "U", "V", "W", "X", "Y", "Z" >>

Ord(c) == CHOOSE i \in 1..Len(AsciiOrder) : AsciiOrder[i] = c

IsLower(c) == \E i \in 1..Len(LowerChars) : LowerChars[i] = c

IsUpper(c) == \E i \in 1..Len(UpperChars) : UpperChars[i] = c

ToUpper(c) ==
    IF IsLower(c)
    THEN UpperChars[CHOOSE i \in 1..Len(LowerChars) : LowerChars[i] = c]
    ELSE c

ToLower(c) ==
    IF IsUpper(c)
    THEN LowerChars[CHOOSE i \in 1..Len(UpperChars) : UpperChars[i] = c]
    ELSE c

\* str.upper() and str.lower()
StrUpper(s) == [i \in 1..Len(s) |-> ToUpper(s[i])]

StrLower(s) == [i \in 1..Len(s) |-> ToLower(s[i])]

\* str.title(): a cased character is upper-cased when the character before it
\* is not cased, and lower-cased when it is.
StrTitle(s) ==
    [i \in 1..Len(s) |->
        LET prevCased == i > 1 /\ (IsLower(s[i-1]) \/ IsUpper(s[i-1]))
        IN  IF prevCased THEN ToLower(s[i]) ELSE ToUpper(s[i])]

\* s[i:i+len(p)] == p
MatchAt(s, p, i) ==
    /\ i + Len(p) - 1 <= Len(s)
    /\ \A k \in 1..Len(p) : s[i + k - 1] = p[k]

\* str.startswith(p)
StartsWith(s, p) == MatchAt(s, p, 1)

\* str.endswith(p)
EndsWith(s, p) == Len(p) <= Len(s) /\ MatchAt(s, p, Len(s) - Len(p) + 1)

\* p in s
Contains(s, p) == \E i \in 1..(Len(s) + 1) : MatchAt(s, p, i)

\* str.replace(old, new): non-overlapping occurrences, left to right.
RECURSIVE ReplaceFrom(_, _, _, _)
ReplaceFrom(s, old, new, i) ==
    IF i > Len(s) THEN << >>
    ELSE IF MatchAt(s, old, i)
         THEN new \o ReplaceFrom(s, old, new, i + Len(old))
         ELSE << s[i] >> \o ReplaceFrom(s, old, new, i + 1)

StrReplace(s, old, new) == ReplaceFrom(s, old, new, 1)

\* s < t in Python's string order (code points, a proper prefix first).
RECURSIVE StrLess(_, _)
StrLess(s, t) ==
    IF Len(t) = 0 THEN FALSE
    ELSE IF Len(s) = 0 THEN TRUE
    ELSE IF s[1] = t[1] THEN StrLess(Tail(s), Tail(t))
    ELSE Ord(s[1]) < Ord(t[1])

\* sorted(S) for a set of strings.
RECURSIVE Sorted(_)
Sorted(S) ==
    IF S = {} THEN << >>
    ELSE LET m == CHOOSE x \in S : \A y \in S \ {x} : StrLess(x, y)
         IN  << m >> \o Sorted(S \ {m})

(***************************************************************************)
(* Python dict with insertion order: a sequence of <<key, value>> pairs.   *)
(***************************************************************************)

DictKeys(d) == [i \in 1..Len(d) |-> d[i][1]]

DictValues(d) == {d[i][2] : i \in 1..Len(d)}

DictHas(d, k) == \E i \in 1..Len(d) : d[i][1] = k

DictGet(d, k) == d[CHOOSE i \in 1..Len(d) : d[i][1] = k][2]

\* d[k] = v: an existing key keeps its position and takes the new value.
DictSet(d, k, v) ==
    IF DictHas(d, k)
    THEN [i \in 1..Len(d) |-> IF d[i][1] = k THEN << k, v >> ELSE d[i]]
    ELSE Append(d, << k, v >>)

(***************************************************************************)
(* External processes.  subprocess.run either returns (exit status zero or *)
(* not), raises TimeoutExpired when a timeout= was given, or raises        *)
(* OSError (FileNotFoundError: the executable is not installed).           *)
(***************************************************************************)

ProcKinds == {"ok", "nonzero", "timeout", "oserror"}

\* The outcomes of a call made without timeout=.
UntimedKinds == {"ok", "nonzero", "oserror"}

Raises(res) == res \in {"timeout", "oserror"}

(***************************************************************************)
(* Branch catalog cell (lines 77-147).                                     *)
(***************************************************************************)

\* _platform_map: branch name -> label
platform_map ==
    << << << "t", "a", "h", "o", "e" >>,
          << "m", "a", "c", "O", "S", " ", "2", "6", " ", "T", "a", "h", "o", "e" >> >>,
       << << "s", "e", "q", "u", "o", "i", "a" >>,
          << "m", "a", "c", "O", "S", " ", "1", "5", " ", "S", "e", "q", "u", "o", "i", "a" >> >>,
       << << "s", "o", "n", "o", "m", "a" >>,
          << "m", "a", "c", "O", "S", " ", "1", "4", " ", "S", "o", "n", "o", "m", "a" >> >>,
       << << "v", "e", "n", "t", "u", "r", "a" >>,
          << "m", "a", "c", "O", "S", " ", "1", "3", " ", "V", "e", "n", "t", "u", "r", "a" >> >>,
       << << "m", "o", "n", "t", "e", "r", "e", "y" >>,
          << "m", "a", "c", "O", "S", " ", "1", "2", " ", "M", "o", "n", "t", "e", "r", "e", "y" >> >>,
       << << "b", "i", "g", "_", "s", "u", "r" >>,
          << "m", "a", "c", "O", "S", " ", "1", "1", " ", "B", "i", "g", " ", "S", "u", "r" >> >>,
       << << "c", "a", "t", "a", "l", "i", "n", "a" >>,
          << "m", "a", "c", "O", "S", " ", "1", "0", ".", "1", "5", " ", "C", "a", "t", "a", "l", "i", "n", "a" >> >>,
       << << "i", "o", "s", "_", "2", "6" >>,
          << "i", "O", "S", "/", "i", "P", "a", "d", "O", "S", " ", "2", "6" >> >>,
       << << "i", "o", "s", "_", "1", "8" >>,
          << "i", "O", "S", "/", "i", "P", "a", "d", "O", "S", " ", "1", "8" >> >>,
       << << "i", "o", "s", "_", "1", "7" >>,
          << "i", "O", "S", "/", "i", "P", "a", "d", "O", "S", " ", "1", "7" >> >>,
       << << "i", "o", "s", "_", "1", "6" >>,
          << "i", "O", "S", "/", "i", "P", "a", "d", "O", "S", " ", "1", "6" >> >>,
       << << "v", "i", "s", "i", "o", "n", "o", "s", "_", "2", "6" >>,
          << "v", "i", "s", "i", "o", "n", "O", "S", " ", "2", "6" >> >>,
       << << "v", "i", "s", "i", "o", "n", "o", "s", "_", "2" >>,
          << "v", "i", "s", "i", "o", "n", "O", "S", " ", "2" >> >>,
       << << "m", "a", "i", "n" >>,
          << "U+26A0", "U+FE0F", " ", "m", "a", "i", "n", " ", "(", "d", "e", "v", "e", "l", "o", "p", "m", "e", "n", "t", " ", "-", " ", "n", "o", "t", " ", "r", "e", "c", "o", "m", "m", "e", "n", "d", "e", "d", ")" >> >> >>

\* The branch list shown when nothing could be fetched.
FallbackBranches ==
    << << << "m", "a", "c", "O", "S", " ", "2", "6", " ", "T", "a", "h", "o", "e" >>,
          << "t", "a", "h", "o", "e" >> >>,
       << << "m", "a", "c", "O", "S", " ", "1", "5", " ", "S", "e", "q", "u", "o", "i", "a" >>,
          << "s", "e", "q", "u", "o", "i", "a" >> >>,
       << << "i", "O", "S", " ", "2", "6" >>,
          << "i", "o", "s", "_", "2", "6" >> >> >>

ExcludedPrefixes ==
    { << "d", "e", "v" >>,
      << "n", "i", "s", "t", "-" >>,
      << "5", "0", "5", "-" >> }

ExcludedSubstrings ==
    { << "_", "f", "i", "x" >>,
      << "_", "t", "y", "p", "o" >>,
      << "c", "r", "e", "a", "t", "e", "-" >> }

RefsHeads == << "r", "e", "f", "s", "/", "h", "e", "a", "d", "s", "/" >>

tahoe == << "t", "a", "h", "o", "e" >>

sequoia == << "s", "e", "q", "u", "o", "i", "a" >>

ios_26 == << "i", "o", "s", "_", "2", "6" >>

MacOS26Tahoe == << "m", "a", "c", "O", "S", " ", "2", "6", " ", "T", "a", "h", "o", "e" >>

MacOS15Sequoia == << "m", "a", "c", "O", "S", " ", "1", "5", " ", "S", "e", "q", "u", "o", "i", "a" >>

SampleHeads ==
    { << "t", "a", "h", "o", "e" >>,
      << "s", "e", "q", "u", "o", "i", "a" >>,
      << "i", "o", "s", "_", "2", "6" >>,
      << "m", "a", "i", "n" >>,
      << "d", "e", "v", "_", "2", ".", "0" >>,
      << "n", "i", "s", "t", "-", "8", "0", "0", "-", "5", "3", "r", "5" >>,
      << "5", "0", "5", "-", "a", "u", "d", "i", "t" >>,
      << "s", "o", "n", "o", "m", "a", "_", "f", "i", "x" >>,
      << "r", "u", "l", "e", "s", "_", "t", "y", "p", "o" >>,
      << "c", "r", "e", "a", "t", "e", "-", "p", "r" >>,
      << "i", "o", "s", "_", "d", "e", "v" >> }

\* One line of `git ls-remote --heads` for a head of the remote.
LsRemoteLine(head) == << "0", "\t" >> \o RefsHeads \o head

\* line.split("refs/heads/")[-1]
SplitLast(line, sep) ==
    LET hits == {i \in 1..Len(line) : MatchAt(line, sep, i)}
    IN  IF hits = {} THEN line
        ELSE LET last == CHOOSE i \in hits : \A j \in hits : j <= i
             IN  SubSeq(line, last + Len(sep), Len(line))

\* _get_github_branches(): the sorted branch names, [] on any failure.
get_github_branches(res, lines) ==
    IF res = "ok"
    THEN Sorted({SplitLast(l, RefsHeads) : l \in {x \in lines : x # << >>}})
    ELSE << >>

\* The same with the substring patterns forgotten.
UnknownBranchShownPrefixOnly(b) ==
    ~ \E p \in ExcludedPrefixes : StartsWith(b, p)

\* The name filter of the loop body: an unknown branch is shown unless its
\* name has one of the development prefixes or substrings.
UnknownBranchShown(b) ==
    /\ ~ \E p \in ExcludedPrefixes : StartsWith(b, p)
    /\ ~ \E x \in ExcludedSubstrings : Contains(b, x)

\* for _b in _raw_branches: ...
RECURSIVE FilterBranches(_, _)
FilterBranches(raw, d) ==
    IF raw = << >> THEN d
    ELSE LET b == Head(raw)
         IN  FilterBranches(Tail(raw),
                 IF DictHas(platform_map, b)
                 THEN DictSet(d, DictGet(platform_map, b), b)
                 ELSE IF UnknownBranchShown(b)
                      THEN DictSet(d, b, b)
                      ELSE d)

\* The whole cell: the dropdown's options and its initial value (a dropdown
\* over a dict has the mapped branch name as its value).
BranchCell(res, lines) ==
    LET raw      == get_github_branches(res, lines)
        filtered == FilterBranches(raw, << >>)
        display  == IF filtered = << >> THEN FallbackBranches ELSE filtered
        default  == IF DictHas(display, MacOS26Tahoe) THEN MacOS26Tahoe
                    ELSE IF DictHas(display, MacOS15Sequoia) THEN MacOS15Sequoia
                    ELSE DictKeys(display)[1]
    IN  [options |-> display, value |-> DictGet(display, default)]

(***************************************************************************)
(* The repository on disk and the remote.                                  *)
(*                                                                         *)
(* disk.kind is "missing" (the path does not exist), "plain" (the path     *)
(* exists but holds no clone: no scripts/generate_guidance.py and no       *)
(* readable HEAD) or "repo" (a clone with disk.head checked out).          *)
(* disk.script tells whether scripts/generate_guidance.py is in the work   *)
(* tree: a clone may have lost it.                                         *)
(***************************************************************************)

Baselines_tahoe ==
    { << "c", "i", "s", "_", "l", "v", "l", "1", ".", "y", "a", "m", "l" >>,
      << "8", "0", "0", "-", "5", "3", "r", "5", "_", "l", "o", "w", ".", "y", "a", "m", "l" >>,
      << "8", "0", "0", "-", "1", "7", "1", ".", "y", "a", "m", "l" >>,
      << "c", "m", "m", "c", "_", "l", "v", "l", "1", ".", "y", "a", "m", "l" >> }

Baselines_sequoia ==
    { << "c", "i", "s", "_", "l", "v", "l", "2", ".", "y", "a", "m", "l" >>,
      << "c", "n", "s", "s", "i", "-", "1", "2", "5", "3", "_", "l", "o", "w", ".", "y", "a", "m", "l" >>,
      << "a", "l", "l", "_", "r", "u", "l", "e", "s", ".", "y", "a", "m", "l" >>,
      << "D", "I", "S", "A", "-", "S", "T", "I", "G", ".", "y", "a", "m", "l" >> }

Baselines_ios_26 ==
    { << "c", "i", "s", "_", "l", "v", "l", "1", "_", "b", "y", "o", "d", ".", "y", "a", "m", "l" >>,
      << "c", "i", "s", "_", "l", "v", "l", "2", "_", "e", "n", "t", "e", "r", "p", "r", "i", "s", "e", ".", "y", "a", "m", "l" >>,
      << "i", "n", "d", "i", "g", "o", "_", "b", "a", "s", "e", ".", "y", "a", "m", "l" >> }

FallbackBaselines ==
    << << << "C", "I", "S", " ", "L", "e", "v", "e", "l", " ", "1" >>,
          << "c", "i", "s", "_", "l", "v", "l", "1" >> >>,
       << << "C", "I", "S", " ", "L", "e", "v", "e", "l", " ", "2" >>,
          << "c", "i", "s", "_", "l", "v", "l", "2" >> >>,
       << << "N", "I", "S", "T", " ", "8", "0", "0", "-", "5", "3", "r", "5", " ", "L", "o", "w" >>,
          << "8", "0", "0", "-", "5", "3", "r", "5", "_", "l", "o", "w" >> >>,
       << << "N", "I", "S", "T", " ", "8", "0", "0", "-", "5", "3", "r", "5", " ", "M", "o", "d", "e", "r", "a", "t", "e" >>,
          << "8", "0", "0", "-", "5", "3", "r", "5", "_", "m", "o", "d", "e", "r", "a", "t", "e" >> >>,
       << << "N", "I", "S", "T", " ", "8", "0", "0", "-", "5", "3", "r", "5", " ", "H", "i", "g", "h" >>,
          << "8", "0", "0", "-", "5", "3", "r", "5", "_", "h", "i", "g", "h" >> >> >>

DotYaml == << ".", "y", "a", "m", "l" >>

Underscore == << "_" >>

Hyphen == << "-" >>

Space == << " " >>

byod == << "b", "y", "o", "d" >>

BYOD == << "B", "Y", "O", "D" >>

enterprise == << "e", "n", "t", "e", "r", "p", "r", "i", "s", "e" >>

Enterprise == << "E", "n", "t", "e", "r", "p", "r", "i", "s", "e" >>

indigo == << "i", "n", "d", "i", "g", "o" >>

indigo_sp == << "i", "n", "d", "i", "g", "o", " " >>

Indigo_sp == << "I", "n", "d", "i", "g", "o", " " >>

cis == << "c", "i", "s" >>

cis_sp == << "c", "i", "s", " " >>

CIS_sp == << "C", "I", "S", " " >>

n800_53 == << "8", "0", "0", "-", "5", "3" >>

NIST_sp == << "N", "I", "S", "T", " " >>

n800_171 == << "8", "0", "0", "-", "1", "7", "1" >>

NIST_SP_800_171 == << "N", "I", "S", "T", " ", "S", "P", " ", "8", "0", "0", "-", "1", "7", "1" >>

cmmc == << "c", "m", "m", "c" >>

cmmc_sp == << "c", "m", "m", "c", " " >>

CMMC_sp == << "C", "M", "M", "C", " " >>

cnssi == << "c", "n", "s", "s", "i" >>

all_rules == << "a", "l", "l", "_", "r", "u", "l", "e", "s" >>

AllRulesComplete == << "A", "l", "l", " ", "R", "u", "l", "e", "s", " ", "(", "c", "o", "m", "p", "l", "e", "t", "e", ")" >>

File_800_53r5_low == << "8", "0", "0", "-", "5", "3", "r", "5", "_", "l", "o", "w", ".", "y", "a", "m", "l" >>

File_cis_lvl1_byod == << "c", "i", "s", "_", "l", "v", "l", "1", "_", "b", "y", "o", "d", ".", "y", "a", "m", "l" >>

Label_NIST_800_53r5_Low == << "N", "I", "S", "T", " ", "8", "0", "0", "-", "5", "3", "r", "5", " ", "L", "o", "w" >>

Label_CIS_Lvl1_BYOD == << "C", "I", "S", " ", "L", "v", "l", "1", " ", "B", "Y", "O", "D" >>

\* A Python None (no character string is equal to it).
None == << "<None>" >>

\* Truthiness of an optional string: None and "" are falsy.
Truthy(x) == x # None /\ x # << >>

\* The files of baselines/ on a branch of the remote.
RemoteBaselines(b) ==
    IF b = tahoe THEN Baselines_tahoe
    ELSE IF b = sequoia THEN Baselines_sequoia
    ELSE IF b = ios_26 THEN Baselines_ios_26
    ELSE {}

\* _path.exists()
PathExists(d) == d.kind # "missing"

\* (_path / "scripts" / "generate_guidance.py").exists()
ScriptExists(d) == d.script

\* The directory listing of <path>/baselines.
BaselineDir(d) == IF d.kind = "repo" THEN RemoteBaselines(d.head) ELSE {}

\* (_path / "baselines" / <stem>.yaml).exists()
BaselineFileExists(d, stem) == (stem \o DotYaml) \in BaselineDir(d)

(***************************************************************************)
(* Baseline catalog cell (lines 304-357).                                  *)
(***************************************************************************)

\* Path.stem: the file name without its last suffix.
Stem(f) ==
    LET dots == {i \in 2..Len(f) : f[i] = "."}
    IN  IF dots = {} THEN f
        ELSE SubSeq(f, 1, (CHOOSE i \in dots : \A j \in dots : j <= i) - 1)

\* _path.glob("*.yaml")
GlobYaml(dir) == {f \in dir : EndsWith(f, DotYaml)}

\* The label of one baseline (lines 315-340).
BaselineLabel(name) ==
    LET display == StrReplace(StrReplace(name, Underscore, Space), Hyphen, Space)
        lower   == StrLower(name)
    IN  IF Contains(lower, byod)
        THEN CIS_sp \o StrTitle(StrReplace(StrReplace(display, cis_sp, << >>), byod, BYOD))
        ELSE IF Contains(lower, enterprise)
        THEN CIS_sp \o StrTitle(StrReplace(StrReplace(display, cis_sp, << >>),
                                           enterprise, Enterprise))
        ELSE IF Contains(lower, indigo)
        THEN Indigo_sp \o StrTitle(StrReplace(display, indigo_sp, << >>))
        ELSE IF Contains(lower, cis)
        THEN CIS_sp \o StrTitle(StrReplace(display, cis_sp, << >>))
        ELSE IF Contains(name, n800_53)
        THEN NIST_sp \o StrUpper(name)
        ELSE IF Contains(name, n800_171)
        THEN NIST_SP_800_171
        ELSE IF Contains(lower, cmmc)
        THEN CMMC_sp \o StrTitle(StrReplace(display, cmmc_sp, << >>))
        ELSE IF Contains(lower, cnssi)
        THEN StrReplace(StrUpper(name), Underscore, Space)
        ELSE IF Contains(lower, all_rules)
        THEN AllRulesComplete
        ELSE StrTitle(display)

\* for _f in sorted(_path.glob("*.yaml")): _baselines[_display] = _name
RECURSIVE ScanBaselines(_, _)
ScanBaselines(fs, d) ==
    IF fs = << >> THEN d
    ELSE LET name == Stem(Head(fs))
         IN  ScanBaselines(Tail(fs), DictSet(d, BaselineLabel(name), name))

\* The whole cell: the dropdown's options and its initial value (the stem
\* mapped by the first label).
BaselineCell(d) ==
    LET scanned == IF d.kind = "repo"
                   THEN ScanBaselines(Sorted(GlobYaml(BaselineDir(d))), << >>)
                   ELSE << >>
        options == IF scanned = << >> THEN FallbackBaselines ELSE scanned
    IN  [options |-> options, value |-> options[1][2]]

(***************************************************************************)
(* State.                                                                  *)
(***************************************************************************)

VARIABLES
    remote_heads,   \* the branches of the remote repository
    disk,           \* the repository path on disk
    started,        \* the notebook has run its cells once
    branch_display, \* options of the branch dropdown (label -> branch)
    branch,         \* branch.value
    status,         \* the callout of the status cell
    sync_obs,       \* what the last Sync press saw: the disk, the cells above
    sync_action,    \* "none", "clone", "switch" or "pull": the last press
    sync_trace,     \* the git commands of the last press, with their outcomes
    sync_output,    \* _output of the sync cell
    sync_complete,  \* the value the sync cell exports
    sync_hist,      \* the last two Sync presses: exported value, success
    baselines,      \* options of the baseline dropdown (label -> stem)
    baseline,       \* baseline.value
    flags,          \* the checked output types, among -p -s -D -g
    gen_trace,      \* the generator runs of the last Generate press
    gen_output,     \* _output of the generate cell
    summary,        \* what the output summary cell shows
    list_output,    \* _output of the list cell
    show_open,      \* the list cell shows the Open Build Folder button
    open_trace,     \* the `open` runs of the last Open Build Folder press
    uncaught        \* the cells whose last run ended in an uncaught exception

vars ==
    << remote_heads, disk, started, branch_display, branch, status, sync_obs,
       sync_action, sync_trace, sync_output, sync_complete, sync_hist,
       baselines, baseline, flags, gen_trace, gen_output, summary,
       list_output, show_open, open_trace, uncaught >>

\* One piece of a cell's _output: a message of the notebook, or the captured
\* stdout + stderr of a command.
Msg(text) == << "msg", text >>

Out(cmd) == << "out", cmd >>

(***************************************************************************)
(* Status cell (lines 150-180).                                            *)
(***************************************************************************)

Unknown == << "u", "n", "k", "n", "o", "w", "n" >>

\* git rev-parse --abbrev-ref HEAD in the path: it prints the branch only in
\* a clone.
RevParseKinds(d) ==
    IF d.kind = "repo" THEN UntimedKinds ELSE {"nonzero", "oserror"}

StatusCell(d, res) ==
    IF PathExists(d) /\ ScriptExists(d)
    THEN [kind |-> "success", current |-> IF res = "ok" THEN d.head ELSE Unknown]
    ELSE [kind |-> "warn", current |-> None]

(***************************************************************************)
(* Sync cell (lines 189-288).                                              *)
(***************************************************************************)

\* _needs_clone = not _path.exists()
needs_clone(d) == ~ PathExists(d)

\* _current_branch (lines 197-209): None unless rev-parse ran and exited 0.
current_branch(d, res) ==
    IF needs_clone(d) THEN None
    ELSE IF res = "ok" THEN d.head
    ELSE None

\* The comparison of line 211 turned round.
needs_switchEqual(cur, b) == Truthy(cur) /\ cur = b

\* _needs_switch = _current_branch and _current_branch != branch.value
needs_switch(cur, b) == Truthy(cur) /\ cur # b

\* The same without the guard on an unread branch: None != branch.value.
SyncActionUnguarded(d, cur, b) ==
    IF needs_clone(d) THEN "clone"
    ELSE IF cur # b THEN "switch"
    ELSE "pull"

\* The branch of the if / elif / else at lines 213, 232, 270.
SyncAction(d, cur, b) ==
    IF needs_clone(d) THEN "clone"
    ELSE IF needs_switch(cur, b) THEN "switch"
    ELSE "pull"

\* Lines 213-231.
CloneBranch(res) ==
    [trace  |-> << << "clone", res >> >>,
     output |-> << Msg("Cloning mSCP") >> \o
                (IF res = "timeout"
                 THEN << Msg("Error: Clone timed out (2 min limit)") >>
                 ELSE IF res = "oserror"
                 THEN << Msg("Error: {e}") >>
                 ELSE << Out("clone"),
                         IF res = "ok" THEN Msg("Ready: mSCP")
                                       ELSE Msg("Clone failed.") >>)]

\* The same with the fetch output left out of _output.
SwitchBranchFetchUnlogged(r1, r2, r3) ==
    LET error(res) == IF res = "timeout"
                      THEN << Msg("Error: Branch switch timed out") >>
                      ELSE << Msg("Error: {e}") >>
        head == << Msg("Switching") >>
    IN  IF Raises(r1)
        THEN [trace  |-> << << "set-branches", r1 >> >>,
              output |-> head \o error(r1)]
        ELSE IF Raises(r2)
        THEN [trace  |-> << << "set-branches", r1 >>, << "fetch", r2 >> >>,
              output |-> head \o error(r2)]
        ELSE IF Raises(r3)
        THEN [trace  |-> << << "set-branches", r1 >>, << "fetch", r2 >>,
                            << "checkout", r3 >> >>,
              output |-> head \o error(r3)]
        ELSE [trace  |-> << << "set-branches", r1 >>, << "fetch", r2 >>,
                            << "checkout", r3 >> >>,
              output |-> head \o << Out("checkout"),
                                    IF r3 = "ok" THEN Msg("Switched to: mSCP")
                                                 ELSE Msg("Switch failed.") >>]

\* Lines 232-269.  The three commands run inside one try: an exception ends
\* the block, an exit status does not.
SwitchBranch(r1, r2, r3) ==
    LET error(res) == IF res = "timeout"
                      THEN << Msg("Error: Branch switch timed out") >>
                      ELSE << Msg("Error: {e}") >>
        head == << Msg("Switching") >>
    IN  IF Raises(r1)
        THEN [trace  |-> << << "set-branches", r1 >> >>,
              output |-> head \o error(r1)]
        ELSE IF Raises(r2)
        THEN [trace  |-> << << "set-branches", r1 >>, << "fetch", r2 >> >>,
              output |-> head \o error(r2)]
        ELSE IF Raises(r3)
        THEN [trace  |-> << << "set-branches", r1 >>, << "fetch", r2 >>,
                            << "checkout", r3 >> >>,
              output |-> head \o << Out("fetch") >> \o error(r3)]
        ELSE [trace  |-> << << "set-branches", r1 >>, << "fetch", r2 >>,
                            << "checkout", r3 >> >>,
              output |-> head \o << Out("fetch"), Out("checkout"),
                                    IF r3 = "ok" THEN Msg("Switched to: mSCP")
                                                 ELSE Msg("Switch failed.") >>]

\* Lines 270-284.
PullBranch(res) ==
    [trace  |-> << << "pull", res >> >>,
     output |-> << Msg("Already on branch. Updating...") >> \o
                (IF Raises(res)
                 THEN << Msg("Error updating: {e}") >>
                 ELSE << Out("pull"), Msg("Repository up to date.") >>)]

\* The messages with which the cell reports that the action worked.
SuccessMsgs ==
    { Msg("Ready: mSCP"), Msg("Switched to: mSCP"), Msg("Repository up to date.") }

\* What the user is told: the last message of _output reports success.
Succeeded(output) == output # << >> /\ output[Len(output)] \in SuccessMsgs

\* An export keyed on success instead.
SyncCompleteOnSuccess(button, output) == button /\ Succeeded(output)

\* Line 286: sync_complete = sync_button.value, whatever _output holds.
SyncComplete(button, output) == button

(***************************************************************************)
(* What the git commands do to the disk.                                   *)
(***************************************************************************)

\* git can deliver a branch only if the remote has it.
CloneKinds(heads, b) == IF b \in heads THEN ProcKinds ELSE ProcKinds \ {"ok"}

\* A git command run in the path works only in a clone.
InRepoKinds(d) == IF d.kind = "repo" THEN ProcKinds ELSE ProcKinds \ {"ok"}

\* git clone: a clone of the branch on success, nothing on an error exit; a
\* clone killed at its timeout may leave the directory behind.
AfterClone(d, b, res) ==
    IF res = "ok" THEN {[kind |-> "repo", head |-> b, script |-> TRUE]}
    ELSE IF res = "timeout"
    THEN {d, [kind |-> "plain", head |-> None, script |-> FALSE]}
    ELSE {d}

\* git checkout: HEAD moves on success; a checkout killed at its timeout
\* may or may not have moved it.  A script missing from the work tree may
\* come back with the files of the other branch.
AfterCheckout(d, b, res) ==
    LET moved == {[d EXCEPT !.head = b, !.script = s] : s \in {d.script, TRUE}}
    IN  IF d.kind # "repo" THEN {d}
        ELSE IF res = "ok" THEN moved
        ELSE IF res = "timeout" THEN {d} \cup moved
        ELSE {d}

(***************************************************************************)
(* Generate cell (lines 423-485).                                          *)
(***************************************************************************)

\* Lines 436-444: the flags of the checked boxes, in this order.
FlagList(f) ==
    (IF f.profiles THEN << "-p" >> ELSE << >>) \o
    (IF f.scripts  THEN << "-s" >> ELSE << >>) \o
    (IF f.ddm      THEN << "-D" >> ELSE << >>) \o
    (IF f.guidance THEN << "-g" >> ELSE << >>)

\* The same with the flags checked before the path and the script.
GenerateCellFlagsFirst(button, d, base, f, res) ==
    IF ~ button
    THEN [trace |-> << >>, output |-> << >>]
    ELSE IF FlagList(f) = << >>
    THEN [trace |-> << >>,
          output |-> << Msg("Error: Select at least one output type") >>]
    ELSE IF ~ PathExists(d)
    THEN [trace |-> << >>,
          output |-> << Msg("Error: mSCP repository not found") >>]
    ELSE IF ~ ScriptExists(d)
    THEN [trace |-> << >>,
          output |-> << Msg("Error: generate_guidance.py not found") >>]
    ELSE IF ~ BaselineFileExists(d, base)
    THEN [trace |-> << >>,
          output |-> << Msg("Error: Baseline file not found") >>]
    ELSE [trace  |-> << << "uv", res >> >>,
          output |-> IF res = "oserror" THEN << Msg("Error: uv not found") >>
                     ELSE IF res = "timeout"
                     THEN << Msg("Error: Generation timed out (5 min limit)") >>
                     ELSE IF res = "ok"
                     THEN << Out("uv"), Msg("Generation complete!") >>
                     ELSE << Out("uv"), Msg("Generation failed with exit code") >>]

\* Lines 427-483.  res is the outcome of the `uv run` call, if it is made.
GenerateCell(button, d, base, f, res) ==
    IF ~ button
    THEN [trace |-> << >>, output |-> << >>]
    ELSE IF ~ PathExists(d)
    THEN [trace |-> << >>,
          output |-> << Msg("Error: mSCP repository not found") >>]
    ELSE IF ~ ScriptExists(d)
    THEN [trace |-> << >>,
          output |-> << Msg("Error: generate_guidance.py not found") >>]
    ELSE IF FlagList(f) = << >>
    THEN [trace |-> << >>,
          output |-> << Msg("Error: Select at least one output type") >>]
    ELSE IF ~ BaselineFileExists(d, base)
    THEN [trace |-> << >>,
          output |-> << Msg("Error: Baseline file not found") >>]
    ELSE [trace  |-> << << "uv", res >> >>,
          output |-> IF res = "oserror" THEN << Msg("Error: uv not found") >>
                     ELSE IF res = "timeout"
                     THEN << Msg("Error: Generation timed out (5 min limit)") >>
                     ELSE IF res = "ok"
                     THEN << Out("uv"), Msg("Generation complete!") >>
                     ELSE << Out("uv"), Msg("Generation failed with exit code") >>]

(***************************************************************************)
(* Output cells (lines 499-586).  Whether <path>/build/<baseline> exists   *)
(* is the generator's doing and is read anew by each cell.                 *)
(***************************************************************************)

\* Lines 499-539: the summary cell.
SummaryCell(exists, res) ==
    IF ~ exists THEN "No output found"
    ELSE IF Raises(res) THEN "Error listing files"
    ELSE "Generated Output Summary"

\* Lines 548-578: the list cell.
ListCell(button, exists, res) ==
    IF ~ button
    THEN [output |-> << >>, show_open |-> FALSE]
    ELSE IF ~ exists
    THEN [output |-> << Msg("Output directory not found") >>, show_open |-> FALSE]
    ELSE IF Raises(res)
    THEN [output |-> << Msg("Error: {e}") >>, show_open |-> FALSE]
    ELSE [output |-> << Msg("Files in"), Out("find") >>, show_open |-> TRUE]

\* Lines 581-586: the open cell.  The call is made outside any try.
OpenCell(button, exists, res) ==
    IF button /\ exists
    THEN [trace |-> << << "open", res >> >>, raised |-> Raises(res)]
    ELSE [trace |-> << >>, raised |-> FALSE]

(***************************************************************************)
(* The notebook.  A cell runs when the notebook starts, when an element it *)
(* reads changes, when a button it reads is pressed, and after any cell    *)
(* whose variables it reads has run.  A run button reads True only in the  *)
(* runs its press starts.                                                  *)
(***************************************************************************)

RemoteHeads == { tahoe, sequoia, ios_26, << "d", "e", "v", "_", "2", ".", "0" >> }

\* Largest number of remote branches in the catalog specification.
MaxHeads == 2

NoFlags == [profiles |-> FALSE, scripts |-> FALSE, ddm |-> FALSE, guidance |-> FALSE]

\* Lines 383-386: the checkboxes as created.
DefaultFlags == [profiles |-> TRUE, scripts |-> TRUE, ddm |-> FALSE, guidance |-> FALSE]

FlagNames == {"profiles", "scripts", "ddm", "guidance"}

NoObs == [exists |-> FALSE, current |-> None, retry |-> FALSE, shown |-> "none"]

DiskStates(heads) ==
    { [kind |-> "missing", head |-> None, script |-> FALSE],
      [kind |-> "plain", head |-> None, script |-> FALSE] }
    \cup { [kind |-> "repo", head |-> h, script |-> s] : h \in heads, s \in BOOLEAN }

Blank ==
    /\ started = FALSE
    /\ branch_display = << >>
    /\ branch = None
    /\ status = [kind |-> "none", current |-> None]
    /\ sync_obs = NoObs
    /\ sync_action = "none"
    /\ sync_trace = << >>
    /\ sync_output = << >>
    /\ sync_complete = FALSE
    /\ sync_hist = << >>
    /\ baselines = << >>
    /\ baseline = None
    /\ flags = NoFlags
    /\ gen_trace = << >>
    /\ gen_output = << >>
    /\ summary = "none"
    /\ list_output = << >>
    /\ show_open = FALSE
    /\ open_trace = << >>
    /\ uncaught = {}

\* The notebook is opened; the path holds whatever was there before.
Init ==
    /\ remote_heads = RemoteHeads
    /\ disk \in DiskStates(RemoteHeads)
    /\ Blank

\* The same with any small set of remote branches and nothing on disk.
InitCatalog ==
    /\ remote_heads \in {H \in SUBSET SampleHeads : Cardinality(H) <= MaxHeads}
    /\ disk = [kind |-> "missing", head |-> None, script |-> FALSE]
    /\ Blank

\* The baseline cell on each state of the disk.
BaselineCatalog == [d \in DiskStates(SampleHeads) |-> BaselineCell(d)]

\* The cells below the baseline dropdown run again, their buttons unpressed:
\* generate (423-485), summary (499-539), list (548-578), open (581-586).
BelowBaseline ==
    /\ gen_trace' = GenerateCell(FALSE, disk', baseline', flags', "ok").trace
    /\ gen_output' = GenerateCell(FALSE, disk', baseline', flags', "ok").output
    /\ summary' \in {SummaryCell(exists, res) :
                         exists \in BOOLEAN, res \in UntimedKinds}
    /\ list_output' = ListCell(FALSE, FALSE, "ok").output
    /\ show_open' = ListCell(FALSE, FALSE, "ok").show_open
    /\ open_trace' = OpenCell(FALSE, FALSE, "ok").trace
    /\ uncaught' = {}

\* The same with the baseline mapping kept from the first run.
BelowSyncCached ==
    /\ status' \in {StatusCell(disk', res) : res \in RevParseKinds(disk')}
    /\ baselines' = IF started THEN baselines ELSE BaselineCatalog[disk'].options
    /\ baseline' = IF started THEN baseline ELSE BaselineCatalog[disk'].value
    /\ BelowBaseline

\* The cells that read sync_complete run again: status (150-180) and
\* baseline (304-357), then the cells below the baseline dropdown.
BelowSync ==
    /\ status' \in {StatusCell(disk', res) : res \in RevParseKinds(disk')}
    /\ baselines' = BaselineCatalog[disk'].options
    /\ baseline' = BaselineCatalog[disk'].value
    /\ BelowBaseline

\* The sync cell has run: its exports, then the cells that read them.
SyncCellRan(button, obs, action, run, d) ==
    /\ disk' = d
    /\ sync_obs' = obs
    /\ sync_action' = action
    /\ sync_trace' = run.trace
    /\ sync_output' = run.output
    /\ sync_complete' = SyncComplete(button, run.output)
    /\ sync_hist' = IF button
                    THEN LET h == Append(sync_hist,
                                         [token |-> SyncComplete(button, run.output),
                                          ok    |-> Succeeded(run.output)])
                         IN  IF Len(h) > 2 THEN Tail(h) ELSE h
                    ELSE sync_hist
    /\ BelowSync

NoRun == [trace |-> << >>, output |-> << >>]

\* The notebook starts: every cell runs once, no button pressed.
Startup ==
    /\ ~ started
    /\ started' = TRUE
    /\ \E ls \in ProcKinds :
         LET cell == BranchCell(ls, {LsRemoteLine(h) : h \in remote_heads})
         IN  /\ branch_display' = cell.options
             /\ branch' = cell.value
    /\ flags' = DefaultFlags
    /\ SyncCellRan(FALSE, NoObs, "none", NoRun, disk)
    /\ UNCHANGED remote_heads

\* The user picks another branch: the sync button is made anew and the sync
\* cell runs with it unpressed.
SelectBranch ==
    /\ started
    /\ \E b \in DictValues(branch_display) \ {branch} : branch' = b
    /\ SyncCellRan(FALSE, NoObs, "none", NoRun, disk)
    /\ UNCHANGED << remote_heads, started, branch_display, flags >>

\* The sync cell shows a Switch whose fetch exited 0 and whose checkout
\* failed: the cell has not run since that press.
HalfSwitched ==
    /\ sync_action = "switch"
    /\ Len(sync_trace) = 3
    /\ sync_trace[2][2] = "ok"
    /\ sync_trace[3][2] # "ok"

\* The user presses Sync Repository (lines 194-288).  A command that is not
\* reached has no outcome: one value stands for it and is not recorded.
PressSync ==
    /\ started
    /\ \E rp \in RevParseKinds(disk) :
         LET cur == current_branch(disk, rp)
             obs == [exists |-> PathExists(disk), current |-> cur,
                     retry |-> HalfSwitched, shown |-> status.kind]
             act == SyncAction(disk, cur, branch)
         IN  IF act = "clone"
             THEN \E res \in CloneKinds(remote_heads, branch) :
                    \E d \in AfterClone(disk, branch, res) :
                      SyncCellRan(TRUE, obs, act, CloneBranch(res), d)
             ELSE IF act = "switch"
             THEN \E r1 \in InRepoKinds(disk) :
                    \E r2 \in IF Raises(r1) THEN {"timeout"}
                              ELSE InRepoKinds(disk) \cap CloneKinds(remote_heads, branch) :
                      \E r3 \in IF Raises(r1) \/ Raises(r2) THEN {"timeout"}
                                ELSE InRepoKinds(disk) \cap CloneKinds(remote_heads, branch) :
                        \E d \in IF Raises(r1) \/ Raises(r2) THEN {disk}
                                 ELSE AfterCheckout(disk, branch, r3) :
                          SyncCellRan(TRUE, obs, act, SwitchBranch(r1, r2, r3), d)
             ELSE \E res \in InRepoKinds(disk) :
                    SyncCellRan(TRUE, obs, act, PullBranch(res), disk)
    /\ UNCHANGED << remote_heads, started, branch_display, branch, flags >>

\* The user ticks or unticks one output type: the generate cell runs with
\* its button unpressed.
ToggleFlag ==
    /\ started
    /\ \E f \in FlagNames : flags' = [flags EXCEPT ![f] = ~ @]
    /\ gen_trace' = GenerateCell(FALSE, disk, baseline, flags', "ok").trace
    /\ gen_output' = GenerateCell(FALSE, disk, baseline, flags', "ok").output
    /\ UNCHANGED << remote_heads, disk, started, branch_display, branch, status,
                    sync_obs, sync_action, sync_trace, sync_output,
                    sync_complete, sync_hist, baselines, baseline, summary,
                    list_output, show_open, open_trace, uncaught >>

\* The user picks another baseline: the cells below the dropdown run again.
SelectBaseline ==
    /\ started
    /\ \E x \in DictValues(baselines) \ {baseline} : baseline' = x
    /\ BelowBaseline
    /\ UNCHANGED << remote_heads, disk, started, branch_display, branch, status,
                    sync_obs, sync_action, sync_trace, sync_output,
                    sync_complete, sync_hist, baselines, flags >>

\* The user presses Generate Baseline (lines 427-483).
PressGenerate ==
    /\ started
    /\ \E res \in ProcKinds :
         LET cell == GenerateCell(TRUE, disk, baseline, flags, res)
         IN  /\ gen_trace' = cell.trace
             /\ gen_output' = cell.output
    /\ UNCHANGED << remote_heads, disk, started, branch_display, branch, status,
                    sync_obs, sync_action, sync_trace, sync_output,
                    sync_complete, sync_hist, baselines, baseline, flags,
                    summary, list_output, show_open, open_trace, uncaught >>

\* The user presses List All Generated Files (lines 554-569); the open
\* button is made anew and the open cell runs with it unpressed.
PressList ==
    /\ started
    /\ \E exists \in BOOLEAN :
         \E res \in UntimedKinds :
           LET cell == ListCell(TRUE, exists, res)
           IN  /\ list_output' = cell.output
               /\ show_open' = cell.show_open
    /\ open_trace' = OpenCell(FALSE, FALSE, "ok").trace
    /\ uncaught' = uncaught \ {"open"}
    /\ UNCHANGED << remote_heads, disk, started, branch_display, branch, status,
                    sync_obs, sync_action, sync_trace, sync_output,
                    sync_complete, sync_hist, baselines, baseline, flags,
                    gen_trace, gen_output, summary >>

\* The user presses Open Build Folder (lines 583-586).
PressOpen ==
    /\ started
    /\ show_open
    /\ \E exists \in BOOLEAN :
         \E res \in UntimedKinds :
           LET cell == OpenCell(TRUE, exists, res)
           IN  /\ open_trace' = cell.trace
               /\ uncaught' = IF cell.raised THEN uncaught \cup {"open"}
                                             ELSE uncaught \ {"open"}
    /\ UNCHANGED << remote_heads, disk, started, branch_display, branch, status,
                    sync_obs, sync_action, sync_trace, sync_output,
                    sync_complete, sync_hist, baselines, baseline, flags,
                    gen_trace, gen_output, summary, list_output, show_open >>

\* Repository side of the notebook: the branch dropdown and the Sync button.
NextSync == Startup \/ SelectBranch \/ PressSync

\* Generation side of the notebook, on whatever the path holds.
NextGenerate ==
    Startup \/ ToggleFlag \/ SelectBaseline \/ PressGenerate \/ PressList \/ PressOpen

\* The branch catalog over any small remote.
NextCatalog == Startup \/ SelectBranch

Spec == Init /\ [][NextSync]_vars

SpecGenerate == Init /\ [][NextGenerate]_vars

SpecCatalog == InitCatalog /\ [][NextCatalog]_vars

(***************************************************************************)
(* Properties.                                                             *)
(***************************************************************************)

\* The commands each action may run.
CommandsOf(action) ==
    IF action = "clone" THEN {"clone"}
    ELSE IF action = "switch" THEN {"set-branches", "fetch", "checkout"}
    ELSE IF action = "pull" THEN {"pull"}
    ELSE {}

Pressed == sync_action # "none"

TraceCommands == {sync_trace[i][1] : i \in 1..Len(sync_trace)}

\* C1 as stated: the action of a Sync press is Clone when the path does not
\* exist, Switch when it exists and the current branch differs from the
\* selected one (a branch that cannot be read differs from every selected
\* branch), Pull when it exists and the two are equal; one action per press.
C1_Original ==
    Pressed =>
        /\ ~ sync_obs.exists => sync_action = "clone"
        /\ sync_obs.exists /\ sync_obs.current # branch => sync_action = "switch"
        /\ sync_obs.exists /\ sync_obs.current = branch => sync_action = "pull"
        /\ TraceCommands # {} /\ TraceCommands \subseteq CommandsOf(sync_action)

\* C1 amended: Clone when the path does not exist; Switch when it exists and
\* the current branch was read and differs from the selected one; Pull when
\* it exists and the current branch equals the selected one or could not be
\* read.  Exactly one action runs per press.
C1_Amended ==
    Pressed =>
        /\ ~ sync_obs.exists => sync_action = "clone"
        /\ sync_obs.exists /\ sync_obs.current # None /\ sync_obs.current # branch
              => sync_action = "switch"
        /\ sync_obs.exists /\ (sync_obs.current = None \/ sync_obs.current = branch)
              => sync_action = "pull"
        /\ TraceCommands # {} /\ TraceCommands \subseteq CommandsOf(sync_action)

\* C1 witness: a press on a path that exists but whose branch cannot be read.
C1_Witness ==
    /\ sync_action = "pull"
    /\ sync_obs.exists
    /\ sync_obs.current = None
    /\ disk.kind = "plain"

\* C2 as stated: two consecutive Sync presses export distinct values of
\* sync_complete.
C2_Original ==
    Len(sync_hist) = 2 => sync_hist[1].token # sync_hist[2].token

\* C2 amended: every Sync press, failed ones included, exports sync_complete,
\* and the value is the same each time: True, the value of the pressed
\* button.  Two consecutive presses export equal values.
C2_Amended ==
    /\ Pressed => sync_complete = TRUE
    /\ \A i \in 1..Len(sync_hist) : sync_hist[i].token = TRUE
    /\ Len(sync_hist) = 2 => sync_hist[1].token = sync_hist[2].token

\* C2 witness: two consecutive presses that both failed.
C2_Witness ==
    /\ Len(sync_hist) = 2
    /\ ~ sync_hist[1].ok
    /\ ~ sync_hist[2].ok
    /\ Pressed

\* C3 as stated: within one sync action no command runs after a command that
\* timed out or exited non-zero; in a Switch such a command makes the outcome
\* a failure (the outcome of a failed pull is the subject of C4).
C3_Claim ==
    /\ \A i \in 1..Len(sync_trace) :
           sync_trace[i][2] # "ok" => i = Len(sync_trace)
    /\ sync_action = "switch"
           /\ (\E i \in 1..Len(sync_trace) : sync_trace[i][2] # "ok")
           => ~ Succeeded(sync_output)

\* C4 as stated: on the selected branch only `git pull --ff-only` runs, and
\* a pull that exits non-zero is reported as a failure.
C4_Claim ==
    sync_action = "pull" /\ sync_obs.current = branch =>
        /\ TraceCommands = {"pull"}
        /\ sync_trace[1][2] = "nonzero" => ~ Succeeded(sync_output)

\* The piece of _output that shows a failed checkout.
CheckoutError(res) ==
    IF res = "nonzero" THEN Out("checkout")
    ELSE IF res = "timeout" THEN Msg("Error: Branch switch timed out")
    ELSE Msg("Error: {e}")

\* C5: Switch runs set-branches, fetch, checkout in that order; when the
\* checkout fails the outcome is a failure, _output holds the fetch output
\* and after it the checkout error, and no pull is run.
C5_SwitchOrder ==
    sync_action = "switch" =>
        /\ [i \in 1..Len(sync_trace) |-> sync_trace[i][1]]
              = SubSeq(<< "set-branches", "fetch", "checkout" >>, 1, Len(sync_trace))
        /\ Len(sync_trace) >= 1
        /\ Len(sync_trace) = 3 /\ sync_trace[3][2] # "ok" =>
              /\ ~ Succeeded(sync_output)
              /\ \E i, j \in 1..Len(sync_output) :
                    /\ i < j
                    /\ sync_output[i] = Out("fetch")
                    /\ sync_output[j] = CheckoutError(sync_trace[3][2])
              /\ "pull" \notin TraceCommands

\* C5 witness: a Switch whose fetch worked and whose checkout exited non-zero.
C5_Witness ==
    /\ sync_action = "switch"
    /\ sync_trace = << << "set-branches", "ok" >>, << "fetch", "ok" >>,
                       << "checkout", "nonzero" >> >>

\* The stems of the baseline files of what is checked out now.
StemsOnDisk ==
    IF disk.kind = "repo"
    THEN {Stem(f) : f \in {g \in RemoteBaselines(disk.head) : EndsWith(g, DotYaml)}}
    ELSE {}

\* C6: once the cells have run, the baselines offered are those of the
\* branch checked out on disk now (the fixed list when it has none), and the
\* selected baseline is one of them.
C6_BaselinesFresh ==
    started =>
        /\ StemsOnDisk # {} => DictValues(baselines) = StemsOnDisk
        /\ StemsOnDisk = {} => baselines = FallbackBaselines
        /\ baseline \in DictValues(baselines)

\* C6 witness: a Sync press has moved the clone to another branch, one with
\* other baseline files.
C6_Witness ==
    /\ sync_action = "switch"
    /\ disk.kind = "repo"
    /\ sync_obs.current # disk.head
    /\ RemoteBaselines(sync_obs.current) # RemoteBaselines(disk.head)
    /\ StemsOnDisk # {}

GeneratePressed == gen_output # << >>

AnyFlag == flags.profiles \/ flags.scripts \/ flags.ddm \/ flags.guidance

BaselineOnDisk ==
    /\ disk.kind = "repo"
    /\ \E f \in RemoteBaselines(disk.head) : f = baseline \o DotYaml

\* C7: a Generate press checks, in this order, that the path exists, that
\* the generator script exists, that a flag is selected and that the
\* baseline file exists; the first check that fails gives the message and
\* the generator is not run; it runs exactly when all four hold.
C7_Preconditions ==
    GeneratePressed =>
        /\ disk.kind = "missing"
              => gen_output = << Msg("Error: mSCP repository not found") >>
        /\ disk.kind # "missing" /\ ~ disk.script
              => gen_output = << Msg("Error: generate_guidance.py not found") >>
        /\ disk.script /\ ~ AnyFlag
              => gen_output = << Msg("Error: Select at least one output type") >>
        /\ disk.script /\ AnyFlag /\ ~ BaselineOnDisk
              => gen_output = << Msg("Error: Baseline file not found") >>
        /\ gen_trace # << >> <=> (disk.script /\ AnyFlag /\ BaselineOnDisk)

\* C7 witness: Generate pressed with no repository path and no flag selected.
C7_Witness ==
    /\ GeneratePressed
    /\ disk.kind = "missing"
    /\ ~ AnyFlag
    /\ gen_trace = << >>

\* A branch name with one of the development prefixes or substrings.
MatchesExclusion(b) ==
    \/ StartsWith(b, << "d", "e", "v" >>)
    \/ StartsWith(b, << "n", "i", "s", "t", "-" >>)
    \/ StartsWith(b, << "5", "0", "5", "-" >>)
    \/ Contains(b, << "_", "f", "i", "x" >>)
    \/ Contains(b, << "_", "t", "y", "p", "o" >>)
    \/ Contains(b, << "c", "r", "e", "a", "t", "e", "-" >>)

\* C8: no fetched branch whose name matches an exclusion pattern is in the
\* display mapping, as a label or as a branch; no name of the label table
\* matches a pattern, so table membership never brings one in.
C8_Excluded ==
    /\ \A i \in 1..Len(platform_map) : ~ MatchesExclusion(platform_map[i][1])
    /\ started =>
          \A h \in remote_heads :
              MatchesExclusion(h) =>
                  \A i \in 1..Len(branch_display) :
                      branch_display[i][1] # h /\ branch_display[i][2] # h

\* C8 witness: the fetch worked and brought a branch matching a pattern
\* together with one that is shown.
C8_Witness ==
    /\ started
    /\ branch_display # FallbackBranches
    /\ \E h \in remote_heads : MatchesExclusion(h)
    /\ \E h \in remote_heads : h \in DictValues(branch_display)

\* C9 as stated: the label made for 800-53r5_low.yaml is "NIST 800-53r5 Low"
\* and the label made for cis_lvl1_byod.yaml is "CIS Lvl1 BYOD"; each file
\* has one label.
C9_Claim ==
    started /\ disk.kind = "repo" =>
        /\ \A f \in RemoteBaselines(disk.head) :
              Cardinality({i \in 1..Len(baselines) : baselines[i][2] = Stem(f)}) = 1
        /\ \A i \in 1..Len(baselines) :
              /\ baselines[i][2] \o DotYaml = File_800_53r5_low
                    => baselines[i][1] = Label_NIST_800_53r5_Low
              /\ baselines[i][2] \o DotYaml = File_cis_lvl1_byod
                    => baselines[i][1] = Label_CIS_Lvl1_BYOD

\* C10 as stated: no operation ends in an uncaught error; every failure of
\* an external process becomes a message of the cell that ran it.
C10_Claim == uncaught = {}

AllOk == \A i \in 1..Len(sync_trace) : sync_trace[i][2] = "ok"

\* C11 as stated: after a Switch whose fetch succeeded and whose checkout
\* failed, the next Sync press with the same selected branch selects Switch
\* again, and when its git steps succeed the clone is on the selected branch.
C11_Original ==
    sync_obs.retry =>
        /\ sync_action = "switch"
        /\ AllOk => disk.kind = "repo" /\ disk.head = branch

\* C11 amended: no git step runs twice in one press and a failed Switch
\* leaves HEAD where its checkout left it: unmoved unless the checkout ran
\* to success or to its timeout.  After a Switch whose fetch succeeded and
\* whose checkout failed, the next press with the same selected branch
\* decides from the branch it reads then: Switch when it is read and still
\* differs from the selected one, and then the clone ends on the selected
\* branch if the git steps succeed; Pull when the killed checkout had
\* already moved HEAD or the branch cannot be read.
C11_Amended ==
    /\ \A i, j \in 1..Len(sync_trace) :
           sync_trace[i][1] = sync_trace[j][1] => i = j
    /\ sync_action = "switch" =>
           /\ ~ (Len(sync_trace) = 3 /\ sync_trace[3][2] \in {"ok", "timeout"})
                 => disk.head = sync_obs.current
           /\ disk.head \in {sync_obs.current, branch}
    /\ sync_obs.retry =>
           /\ sync_obs.current \notin {None, branch} =>
                 /\ sync_action = "switch"
                 /\ AllOk => disk.kind = "repo" /\ disk.head = branch
           /\ sync_obs.current \in {None, branch} => sync_action = "pull"

\* C11 witness: the press after a half-done Switch is a Switch again, its
\* steps succeed and the clone is on the selected branch.
C11_Witness ==
    /\ sync_obs.retry
    /\ sync_action = "switch"
    /\ AllOk
    /\ disk.head = branch

\* C12 as stated: when the status cell shows the repository as not found and
\* Sync is pressed, a press whose git commands all succeed is a Clone of the
\* selected branch, and the status cell then shows the repository as found.
C12_Claim ==
    Pressed /\ sync_obs.shown = "warn" /\ AllOk =>
        /\ sync_action = "clone"
        /\ disk.kind = "repo" /\ disk.head = branch
        /\ status.kind = "success"

====
